---- MODULE Spec2Model ----
(***************************************************************************)
(* A model of the Sudoku board of psobczak/sudoku.  The repository holds   *)
(* two drafts of the same board: src/board.rs (struct Board, coordinates   *)
(* are the enums Row and Column) and src/main.rs (struct Sudoku,           *)
(* coordinates are usize).  The variable draft says which one runs.        *)
(*                                                                         *)
(* A string is a sequence of characters; a character is named by a string  *)
(* ("0".."9", "a", "_", ":", "/", "LF" for the line feed, "U+00E9" for a   *)
(* two-byte and "U+20AC" for a three-byte UTF-8 character).  A grid is the *)
(* array [[Cell; 9]; 9] as a tuple of 9 tuples of 9 cells: the code's      *)
(* index i is the tuple index i + 1.                                       *)
(***************************************************************************)
EXTENDS Integers, Sequences, FiniteSets, TLC

VARIABLES draft, pc, input, board, created, last, nops, call, res, text, reparsed

vars == <<draft, pc, input, board, created, last, nops, call, res, text, reparsed>>

\* ------------------------------------------------------------------ bounds

\* set_cell calls made on one board
MaxOps == 2
\* an input string has 81 - MaxDelta .. 81 + MaxDelta characters
MaxDelta == 2

\* ------------------------------------------------------------- constants

\* the side of the grid, [[Cell; 9]; 9]
N == 9
\* the length try_from asks of its input
InputLen == 81

Drafts == {"board.rs", "main.rs"}

\* ------------------------------------------------------------------ values

Empty == [tag |-> "Empty"]
Value(n) == [tag |-> "Value", num |-> n]

Ok(v) == [tag |-> "Ok", val |-> v]
Err(e, n) == [tag |-> "Err", err |-> e, arg |-> n]
Panic(why) == [tag |-> "Panic", why |-> why]
Some(v) == [tag |-> "Some", val |-> v]
None == [tag |-> "None"]

\* no board: the value of a board variable before creation and after a failure
NoBoard == <<>>

\* the name of the draft's bad-value error
ValueError(d) == IF d = "board.rs" THEN "Value" ELSE "CellValue"

\* ------------------------------------------------------------ coordinates

Rows == <<"A", "B", "C", "D", "E", "F", "G", "H", "I">>
Columns == <<"One", "Two", "Three", "Four", "Five", "Six", "Seven", "Eight", "Nine">>

Row_try_from(value) ==
    IF value \in 0..8 THEN Ok(Rows[value + 1]) ELSE Err("Value", value % 256)

Row_into_usize(row) == CHOOSE i \in 0..8 : Rows[i + 1] = row

Column_try_from(value) ==
    IF value \in 0..8 THEN Ok(Columns[value + 1]) ELSE Err("Value", value % 256)

Column_into_usize(col) == CHOOSE i \in 0..8 : Columns[i + 1] = col

\* ------------------------------------------------------------------- cells

Board_Cell_try_from(value) ==
    IF value = 0 THEN Ok(Empty)
    ELSE IF value \in 1..9 THEN Ok(Value(value))
    ELSE Err("Value", value)

Sudoku_Cell_try_from(value) ==
    IF ~(value \in 1..9) THEN Err("CellValue", value)
    ELSE Ok(Value(value))

Cell_try_from(d, value) ==
    IF d = "board.rs" THEN Board_Cell_try_from(value) ELSE Sudoku_Cell_try_from(value)

\* ------------------------------------------------------------------- board

Board_default == [i \in 1..N |-> [j \in 1..N |-> Empty]]

\* get_cell_mut: the place of the cell, None when an index is out of the array
get_cell_mut(b, row, col) ==
    IF row \in 0..(Len(b) - 1) /\ col \in 0..(Len(b[row + 1]) - 1)
    THEN Some(<<row, col>>)
    ELSE None

\* a plausible slip: row and column taken in the wrong order
WriteCell_transposed(b, row, col, cell) ==
    [b EXCEPT ![col + 1] = [b[col + 1] EXCEPT ![row + 1] = cell]]

\* the board with one cell written
WriteCell(b, row, col, cell) ==
    [b EXCEPT ![row + 1] = [b[row + 1] EXCEPT ![col + 1] = cell]]

\* a plausible slip: the number is stored without Cell::try_from
set_cell_unchecked(d, b, row, col, number) ==
    LET place == get_cell_mut(b, row, col)
    IN  IF place.tag = "None" THEN [res |-> Err(ValueError(d), number), board |-> b]
        ELSE [res |-> Ok(<<>>),
              board |-> [b EXCEPT ![row + 1] = [b[row + 1] EXCEPT ![col + 1] = Value(number)]]]

\* set_cell on indexes: the result and the board it leaves
set_cell(d, b, row, col, number) ==
    LET place == get_cell_mut(b, row, col)
        cell == Cell_try_from(d, number)
    IN  IF place.tag = "None" THEN [res |-> Err(ValueError(d), number), board |-> b]
        ELSE IF cell.tag = "Err" THEN [res |-> Panic("unwrap: Cell::try_from"), board |-> b]
        ELSE [res |-> Ok(<<>>),
              board |-> WriteCell(b, place.val[1], place.val[2], cell.val)]

get_row(b, index) == b[index + 1]

get_column(b, index) == [i \in 1..Len(b) |-> b[i][index + 1]]

\* a plausible slip: the result of the insert is dropped
RECURSIVE all_inserted_unchecked(_, _, _)
all_inserted_unchecked(cells, k, set) ==
    IF k > Len(cells) THEN TRUE
    ELSE IF cells[k].tag = "Empty" THEN FALSE
    ELSE all_inserted_unchecked(cells, k + 1, set \cup {cells[k].num})

\* Iterator::all over cells with the HashSet of the digits seen so far:
\* false at the first Empty cell or the first digit insert refuses
RECURSIVE all_inserted(_, _, _)
all_inserted(cells, k, set) ==
    IF k > Len(cells) THEN TRUE
    ELSE IF cells[k].tag = "Empty" THEN FALSE
    ELSE IF cells[k].num \in set THEN FALSE
    ELSE all_inserted(cells, k + 1, set \cup {cells[k].num})

\* main.rs: is_row_completed(usize); board.rs after index = usize::from(row)
is_row_completed(b, index) == all_inserted(b[index + 1], 1, {})

is_column_completed(b, col) == all_inserted([i \in 1..Len(b) |-> b[i][col + 1]], 1, {})

\* board.rs: is_row_completed(Row), is_column_completed(Column)
Board_is_row_completed(b, row) == is_row_completed(b, Row_into_usize(row))

Board_is_column_completed(b, col) == is_column_completed(b, Column_into_usize(col))

\* the draft's call for the row (column) of index i: board.rs converts the
\* index with try_into().unwrap()
row_completed_at(d, b, i) ==
    IF d = "board.rs" THEN Board_is_row_completed(b, Row_try_from(i).val)
    ELSE is_row_completed(b, i)

column_completed_at(d, b, j) ==
    IF d = "board.rs" THEN Board_is_column_completed(b, Column_try_from(j).val)
    ELSE is_column_completed(b, j)

\* (start..end).all(|row| self.is_row_completed(row)), stopping at the first false
RECURSIVE rows_all(_, _, _, _)
rows_all(d, b, row, end) ==
    IF row >= end THEN TRUE
    ELSE IF ~row_completed_at(d, b, row) THEN FALSE
    ELSE rows_all(d, b, row + 1, end)

RECURSIVE columns_all(_, _, _, _)
columns_all(d, b, column, end) ==
    IF column >= end THEN TRUE
    ELSE IF ~column_completed_at(d, b, column) THEN FALSE
    ELSE columns_all(d, b, column + 1, end)

\* a plausible slip: the range stops one short
all_rows_completed_short(d, b) == rows_all(d, b, 0, 8)

all_rows_completed(d, b) == rows_all(d, b, 0, 9)

all_columns_completed(d, b) == columns_all(d, b, 0, 9)

\* ----------------------------------------------------------------- strings

DecimalChars == <<"0", "1", "2", "3", "4", "5", "6", "7", "8", "9">>

\* the bytes of a character's UTF-8 encoding
len_utf8(c) ==
    IF c = "U+00E9" THEN 2 ELSE IF c = "U+20AC" THEN 3 ELSE 1

\* str::as_bytes: byte k of character c is <<c, k>>
RECURSIVE as_bytes(_)
as_bytes(s) ==
    IF s = <<>> THEN <<>>
    ELSE [k \in 1..len_utf8(Head(s)) |-> <<Head(s), k>>] \o as_bytes(Tail(s))

\* str::len counts bytes
str_len(s) == Len(as_bytes(s))

\* slice::chunks(size): the last chunk may be shorter
RECURSIVE chunks(_, _)
chunks(bytes, size) ==
    IF bytes = <<>> THEN <<>>
    ELSE IF Len(bytes) <= size THEN <<bytes>>
    ELSE <<SubSeq(bytes, 1, size)>> \o chunks(SubSeq(bytes, size + 1, Len(bytes)), size)

IsLead(byte) == byte[2] = 1

\* std::str::from_utf8 of a slice of a valid string: an error when the slice
\* starts inside a character or ends before a character's last byte
from_utf8(chunk) ==
    IF chunk = <<>> THEN Ok(<<>>)
    ELSE IF chunk[1][2] /= 1 \/ chunk[Len(chunk)][2] /= len_utf8(chunk[Len(chunk)][1])
    THEN Err("Utf8Error", 0)
    ELSE LET leads == SelectSeq(chunk, IsLead)
         IN  Ok([k \in 1..Len(leads) |-> leads[k][1]])

\* char::to_digit(radix): '0'..'9' are 0..9, 'a' is 10, and the digit must be
\* below the radix
to_digit(c, radix) ==
    LET digit == IF \E i \in 1..10 : DecimalChars[i] = c
                 THEN (CHOOSE i \in 1..10 : DecimalChars[i] = c) - 1
                 ELSE IF c = "a" THEN 10 ELSE 36
    IN  IF digit < radix THEN Some(digit) ELSE None

\* the cells of one row, character by character; the first unwrap that fails
\* panics
RECURSIVE row_cells(_, _, _, _)
row_cells(d, chars, k, acc) ==
    IF k > Len(chars) THEN Ok(acc)
    ELSE LET digit == to_digit(chars[k], 10)
         IN  IF digit.tag = "None" THEN Panic("unwrap: to_digit")
             ELSE LET cell == Cell_try_from(d, digit.val % 256)
                  IN  IF cell.tag = "Err" THEN Panic("unwrap: Cell::try_from")
                      ELSE row_cells(d, chars, k + 1, Append(acc, cell.val))

\* one chunk to one row: [Cell; 9]
parse_row(d, chunk) ==
    LET row == from_utf8(chunk)
    IN  IF row.tag = "Err" THEN Panic("unwrap: from_utf8")
        ELSE LET cells == row_cells(d, row.val, 1, <<>>)
             IN  IF cells.tag = "Panic" THEN cells
                 ELSE IF Len(cells.val) /= N THEN Panic("unwrap: try_into")
                 ELSE cells

\* the rows in order into the board; the first panic ends the parse
RECURSIVE fill_rows(_, _, _, _)
fill_rows(d, cs, i, b) ==
    IF i > Len(cs) THEN Ok(b)
    ELSE LET row == parse_row(d, cs[i])
         IN  IF row.tag = "Panic" THEN row
             ELSE IF i > N THEN Panic("index out of bounds")
             ELSE fill_rows(d, cs, i + 1, [b EXCEPT ![i] = row.val])

\* impl TryFrom<&str>
try_from(d, value) ==
    IF str_len(value) /= InputLen THEN Err("InputLength", str_len(value))
    ELSE fill_rows(d, chunks(as_bytes(value), 9), 1, Board_default)

\* a u8 in decimal, as write!(f, "{}", val) prints it
RECURSIVE fmt_u8(_)
fmt_u8(n) ==
    IF n < 10 THEN <<DecimalChars[n + 1]>>
    ELSE fmt_u8(n \div 10) \o <<DecimalChars[(n % 10) + 1]>>

fmt_cell(cell) == IF cell.tag = "Empty" THEN <<"_">> ELSE fmt_u8(cell.num)

RECURSIVE fmt_cells(_, _)
fmt_cells(row, k) ==
    IF k > Len(row) THEN <<>> ELSE fmt_cell(row[k]) \o fmt_cells(row, k + 1)

\* a plausible slip: write! where writeln! was meant
RECURSIVE fmt_rows_no_newline(_, _)
fmt_rows_no_newline(b, i) ==
    IF i > Len(b) THEN <<>> ELSE fmt_cells(b[i], 1) \o fmt_rows_no_newline(b, i + 1)

\* impl Display: every row, then writeln!
RECURSIVE fmt_rows(_, _)
fmt_rows(b, i) ==
    IF i > Len(b) THEN <<>> ELSE fmt_cells(b[i], 1) \o <<"LF">> \o fmt_rows(b, i + 1)

fmt(b) == fmt_rows(b, 1)

\* ------------------------------------------------------------------ inputs

\* the solved board of the tests
SolvedDigits ==
    <<1,2,3,4,5,6,7,8,9, 5,7,8,1,3,9,6,2,4, 4,9,6,8,7,2,1,5,3,
      9,5,2,3,8,1,4,6,7, 6,4,1,2,9,7,8,3,5, 3,8,7,5,6,4,2,9,1,
      7,1,9,6,2,3,5,4,8, 8,6,4,9,1,5,3,7,2, 2,3,5,7,4,8,9,1,6>>

\* a puzzle with empty cells
PuzzleDigits ==
    <<0,0,3,0,2,0,6,0,0, 9,0,0,3,0,5,0,0,1, 0,0,1,8,0,6,4,0,0,
      0,0,8,1,0,2,9,0,0, 7,0,0,0,0,0,0,0,8, 0,0,6,7,0,8,2,0,0,
      0,0,2,6,0,9,5,0,0, 8,0,0,2,0,3,0,0,9, 0,0,5,0,1,0,3,0,0>>

Str(digits) == [i \in 1..Len(digits) |-> DecimalChars[digits[i] + 1]]

SolvedInput == Str(SolvedDigits)

Bases == {SolvedInput, Str(PuzzleDigits), Str([i \in 1..81 |-> 0])}

\* a base cut or padded (with "1") to n characters
Resize(s, n) == [i \in 1..n |-> IF i <= Len(s) THEN s[i] ELSE "1"]

\* one character of s replaced; p counts from 0
Replace(s, p, c) == [i \in 1..Len(s) |-> IF i = p + 1 THEN c ELSE s[i]]

EditChars == {"0", "9", "a", "_", ":", "/", "LF", "U+00E9", "U+20AC"}

EditPositions == {0, 8, 80}

Lengths == (81 - MaxDelta)..(81 + MaxDelta)

Inputs ==
    LET sized == {Resize(s, n) : s \in Bases, n \in Lengths}
    IN  sized \cup
        UNION {{Replace(s, p, c) : p \in {q \in EditPositions : q < Len(s)}, c \in EditChars}
               : s \in sized}

\* the coordinates and numbers set_cell is called with
RowInputs == {"A", "I"}
ColumnInputs == {"One", "Two"}
RowIndexInputs == {0, 8, 9}
ColumnIndexInputs == {0, 1, 9}
NumberInputs == {0, 1, 2, 9, 10}

\* ------------------------------------------------------------------ history

\* last[i][j]: the number of the latest successful set_cell on cell (i-1, j-1),
\* -1 when there was none
NoWrites == [i \in 1..N |-> [j \in 1..N |-> -1]]

NoCall == [op |-> "none"]

\* ------------------------------------------------------------------ actions

Init ==
    /\ draft \in Drafts
    /\ pc = "start"
    /\ input = <<>>
    /\ board = NoBoard
    /\ created = NoBoard
    /\ last = NoWrites
    /\ nops = 0
    /\ call = NoCall
    /\ res = None
    /\ text = <<>>
    /\ reparsed = NoBoard

\* Board::new / Sudoku::new
New ==
    /\ pc = "start"
    /\ pc' = "ready"
    /\ board' = Board_default
    /\ created' = Board_default
    /\ call' = [op |-> "new"]
    /\ res' = Ok(<<>>)
    /\ UNCHANGED <<draft, input, last, nops, text, reparsed>>

\* Board::try_from(value) / Sudoku::try_from(value)
TryFrom(value) ==
    /\ pc = "start"
    /\ LET r == try_from(draft, value)
       IN  /\ pc' = IF r.tag = "Ok" THEN "ready"
                    ELSE IF r.tag = "Err" THEN "failed" ELSE "panicked"
           /\ board' = IF r.tag = "Ok" THEN r.val ELSE NoBoard
           /\ created' = IF r.tag = "Ok" THEN r.val ELSE NoBoard
           /\ res' = IF r.tag = "Ok" THEN Ok(<<>>) ELSE r
    /\ input' = value
    /\ call' = [op |-> "try_from"]
    /\ UNCHANGED <<draft, last, nops, text, reparsed>>

\* what a set_cell call leaves
SetCell(row, col, number) ==
    /\ pc = "ready"
    /\ nops < MaxOps
    /\ LET r == set_cell(draft, board, row, col, number)
       IN  /\ res' = r.res
           /\ board' = r.board
           /\ pc' = IF r.res.tag = "Panic" THEN "panicked" ELSE "ready"
           /\ last' = IF r.res.tag = "Ok"
                      THEN [last EXCEPT ![row + 1] = [last[row + 1] EXCEPT ![col + 1] = number]]
                      ELSE last
    /\ nops' = nops + 1
    /\ call' = [op |-> "set_cell", row |-> row, col |-> col, number |-> number]
    /\ UNCHANGED <<draft, input, created, text, reparsed>>

\* board.rs: set_cell((Row, Column), u8)
Board_set_cell ==
    /\ draft = "board.rs"
    /\ \E row \in RowInputs, col \in ColumnInputs, number \in NumberInputs :
           SetCell(Row_into_usize(row), Column_into_usize(col), number)

\* main.rs: set_cell(usize, usize, u8)
Sudoku_set_cell ==
    /\ draft = "main.rs"
    /\ \E row \in RowIndexInputs, col \in ColumnIndexInputs, number \in NumberInputs :
           SetCell(row, col, number)

\* board.rs: get_square_of is todo!()
get_square_of ==
    /\ draft = "board.rs"
    /\ pc = "ready"
    /\ pc' = "panicked"
    /\ call' = [op |-> "get_square_of"]
    /\ res' = Panic("not yet implemented")
    /\ UNCHANGED <<draft, input, board, created, last, nops, text, reparsed>>

\* print the board: format!("{}", board)
Display ==
    /\ pc = "ready"
    /\ pc' = "displayed"
    /\ text' = fmt(board)
    /\ call' = [op |-> "fmt"]
    /\ res' = Ok(<<>>)
    /\ UNCHANGED <<draft, input, board, created, last, nops, reparsed>>

\* try_from on the printed text
ParseDisplayed ==
    /\ pc = "displayed"
    /\ pc' = "reparsed"
    /\ LET r == try_from(draft, text)
       IN  /\ reparsed' = IF r.tag = "Ok" THEN r.val ELSE NoBoard
           /\ res' = IF r.tag = "Ok" THEN Ok(<<>>) ELSE r
    /\ call' = [op |-> "try_from(fmt)"]
    /\ UNCHANGED <<draft, input, board, created, last, nops, text>>

Next ==
    \/ New
    \/ \E value \in Inputs : TryFrom(value)
    \/ Board_set_cell
    \/ Sudoku_set_cell
    \/ get_square_of
    \/ Display
    \/ ParseDisplayed

Spec == Init /\ [][Next]_vars

\* ------------------------------------------------------------------ claims

Indexes == 0..8

IsGrid(b) == b /= NoBoard

CellAt(b, r, c) == b[r + 1][c + 1]

\* the cell a number stands for: Empty for 0, the digit otherwise
CellOf(number) == IF number = 0 THEN Empty ELSE Value(number)

IsDigitChar(c) == \E i \in 1..10 : DecimalChars[i] = c

DigitOf(c) == (CHOOSE i \in 1..10 : DecimalChars[i] = c) - 1

AllFilled(cells) == \A k \in 1..9 : cells[k].tag = "Value"

PairwiseDistinct(cells) == \A j, k \in 1..9 : j < k => cells[j] /= cells[k]

RowCells(b, i) == [k \in 1..9 |-> CellAt(b, i, k - 1)]

ColumnCells(b, j) == [k \in 1..9 |-> CellAt(b, k - 1, j)]

\* box k holds the cells (r, c) with (r / 3) * 3 + c / 3 = k
BoxCells(b, k) ==
    [m \in 1..9 |-> CellAt(b, (k \div 3) * 3 + ((m - 1) \div 3), (k % 3) * 3 + ((m - 1) % 3))]

\* no digit twice among the filled cells
NoRepeat(cells) ==
    \A j, k \in 1..9 : (j < k /\ cells[j].tag = "Value") => cells[j] /= cells[k]

PartialValid(b) ==
    \A u \in Indexes :
        NoRepeat(RowCells(b, u)) /\ NoRepeat(ColumnCells(b, u)) /\ NoRepeat(BoxCells(b, u))

SameUnit(r, c, r2, c2) ==
    r = r2 \/ c = c2 \/ (r \div 3 = r2 \div 3 /\ c \div 3 = c2 \div 3)

\* the number is 0, or the digit is in no other cell of the units of (r, c)
NoConflict(b, r, c, number) ==
    \/ number = 0
    \/ \A r2, c2 \in Indexes :
           (<<r2, c2>> /= <<r, c>> /\ SameUnit(r, c, r2, c2)) => CellAt(b, r2, c2) /= Value(number)

InRange(r, c) == r \in Indexes /\ c \in Indexes

IsInputLength(r) == r.tag = "Err" /\ r.err = "InputLength"

\* the bad-value error of the draft, which the specification calls InvalidDigit
IsInvalidDigit(r) == r.tag = "Err" /\ r.err = ValueError(draft)

Parsed == call.op = "try_from"

\* C1: is_row_completed(i) (is_column_completed(j)) is true if and only if
\* the 9 cells of the row (column) are all non-Empty and pairwise distinct.
C1_UnitCompleted ==
    IsGrid(board) =>
        \A i \in Indexes :
            /\ row_completed_at(draft, board, i)
                   = (AllFilled(RowCells(board, i)) /\ PairwiseDistinct(RowCells(board, i)))
            /\ column_completed_at(draft, board, i)
                   = (AllFilled(ColumnCells(board, i)) /\ PairwiseDistinct(ColumnCells(board, i)))

\* a board after a set_cell with a completed row and column, a row and a column
\* that are full and repeat a digit, and a row and a column with an Empty cell
C1_Witness ==
    /\ IsGrid(board)
    /\ call.op = "set_cell"
    /\ \E i, j, k \in Indexes :
           /\ row_completed_at(draft, board, i)
           /\ AllFilled(RowCells(board, j)) /\ ~row_completed_at(draft, board, j)
           /\ ~AllFilled(RowCells(board, k)) /\ ~row_completed_at(draft, board, k)
    /\ \E i, j, k \in Indexes :
           /\ column_completed_at(draft, board, i)
           /\ AllFilled(ColumnCells(board, j)) /\ ~column_completed_at(draft, board, j)
           /\ ~AllFilled(ColumnCells(board, k)) /\ ~column_completed_at(draft, board, k)

\* C2: an input whose number of characters is not 81 fails with
\* InputLength(the number of characters) and gives no board; an input of
\* exactly 81 characters never yields InputLength.
C2_InputLength ==
    Parsed =>
        /\ Len(input) /= 81 =>
               (IsInputLength(res) /\ res.arg = Len(input) /\ board = NoBoard)
        /\ Len(input) = 81 => ~IsInputLength(res)

\* C3: parsing 81 characters of which one is no digit '0'-'9' returns the
\* InvalidDigit error value (no panic) and gives no board.
C3_InvalidDigit ==
    (Parsed /\ Len(input) = 81 /\ \E k \in 1..Len(input) : ~IsDigitChar(input[k]))
        => (IsInvalidDigit(res) /\ board = NoBoard)

\* C4: parsing 81 digits '0'-'9' succeeds, and cell (r, c) is Empty when the
\* character at 9 * r + c is '0' and holds that character's digit otherwise.
C4_RowMajor ==
    (Parsed /\ Len(input) = 81 /\ \A k \in 1..Len(input) : IsDigitChar(input[k]))
        => /\ res.tag = "Ok"
           /\ IsGrid(created)
           /\ \A r, c \in Indexes :
                  CellAt(created, r, c) = CellOf(DigitOf(input[9 * r + c + 1]))

\* the board.rs draft does what C4 says
Board_RowMajor == draft = "board.rs" => C4_RowMajor

\* the drafts do what C2 says of inputs that are ASCII only, and of all inputs
\* when the length is counted in bytes
Bytes_InputLength ==
    Parsed =>
        /\ str_len(input) /= 81 =>
               (IsInputLength(res) /\ res.arg = str_len(input) /\ board = NoBoard)
        /\ str_len(input) = 81 => ~IsInputLength(res)

\* C5 as claimed: parsing the text Display prints succeeds and gives the
\* grid that was printed.
C5_RoundTrip ==
    pc = "reparsed" => (res.tag = "Ok" /\ reparsed = board)

\* C5 amended: the text is 9 lines of 9 characters, '_' for Empty and the
\* digit otherwise, each ended by a line feed, and parsing it fails with
\* InputLength(90) and gives no grid.
C5_DisplayThenParse ==
    /\ pc \in {"displayed", "reparsed"} =>
           /\ Len(text) = 90
           /\ \A r, c \in Indexes :
                  text[10 * r + c + 1]
                      = IF CellAt(board, r, c) = Empty THEN "_"
                        ELSE DecimalChars[CellAt(board, r, c).num + 1]
           /\ \A r \in Indexes : text[10 * r + 10] = "LF"
    /\ pc = "reparsed" =>
           (IsInputLength(res) /\ res.arg = 90 /\ reparsed = NoBoard)

\* parse, print, parse: a board parsed from 81 digits, with filled and Empty
\* cells, printed and parsed again
C5_Witness ==
    /\ pc = "reparsed"
    /\ Len(input) = 81
    /\ nops = 0
    /\ \E r, c \in Indexes : CellAt(board, r, c) = Empty
    /\ \E r, c \in Indexes : CellAt(board, r, c) /= Empty

\* C6: set with coordinates in the grid and a digit outside [0,9] returns the
\* InvalidDigit error value and changes no cell; with a digit in [0,9] it
\* succeeds, and digit 0 makes the cell Empty.
C6_SetDigit ==
    (call.op = "set_cell" /\ InRange(call.row, call.col)) =>
        /\ call.number \notin 0..9 => IsInvalidDigit(res)
        /\ call.number \in 0..9 =>
               (res.tag = "Ok" /\ CellAt(board, call.row, call.col) = CellOf(call.number))

\* C7 as claimed: every reachable grid is partially valid.
C7_PartialValidity ==
    IsGrid(board) => PartialValid(board)

\* C7 amended: the empty grid is partially valid, and a successful set of a
\* number that is 0 or is in no other cell of the cell's row, column and box
\* keeps a partially valid grid partially valid.
C7_SetKeepsValidity ==
    /\ [](call.op = "new" => PartialValid(board))
    /\ [][(/\ call'.op = "set_cell"
           /\ res'.tag = "Ok"
           /\ PartialValid(board)
           /\ NoConflict(board, call'.row, call'.col, call'.number))
          => PartialValid(board')]_vars

\* a digit set without conflict into a parsed, partially valid grid with
\* filled cells
C7_Witness ==
    /\ call.op = "set_cell"
    /\ res.tag = "Ok"
    /\ nops = 1
    /\ call.number /= 0
    /\ Len(input) = 81
    /\ \E r, c \in Indexes : CellAt(created, r, c) /= Empty
    /\ PartialValid(created)
    /\ NoConflict(created, call.row, call.col, call.number)
    /\ board /= created

\* C9: all_rows_completed (all_columns_completed) is true if and only if
\* every row (column) is completed; both are true of the board parsed from the
\* solved string, and all_rows_completed is false once a row holds a digit
\* twice.
C9_AllCompleted ==
    IsGrid(board) =>
        /\ all_rows_completed(draft, board)
               = (\A i \in Indexes : row_completed_at(draft, board, i))
        /\ all_columns_completed(draft, board)
               = (\A j \in Indexes : column_completed_at(draft, board, j))
        /\ (Parsed /\ input = SolvedInput) =>
               (all_rows_completed(draft, board) /\ all_columns_completed(draft, board))
        /\ (\E i \in Indexes : ~NoRepeat(RowCells(board, i)))
               => ~all_rows_completed(draft, board)

\* the solved board after two set_cell calls that leave a digit twice in a row
C9_Witness ==
    /\ IsGrid(board)
    /\ input = SolvedInput
    /\ all_rows_completed(draft, created)
    /\ all_columns_completed(draft, created)
    /\ nops = 2
    /\ call.op = "set_cell"
    /\ res.tag = "Ok"
    /\ \E i \in Indexes : ~NoRepeat(RowCells(board, i))
    /\ ~all_rows_completed(draft, board)

\* C10: every cell holds the value of the latest successful set_cell on it
\* (Empty for 0, the digit for 1-9), or its value at creation when there was
\* none, and is Empty or a digit in 1..9.
C10_LastWrite ==
    IsGrid(board) =>
        \A r, c \in Indexes :
            /\ CellAt(board, r, c)
                   = IF last[r + 1][c + 1] = -1 THEN CellAt(created, r, c)
                     ELSE CellOf(last[r + 1][c + 1])
            /\ \/ CellAt(board, r, c) = Empty
               \/ /\ CellAt(board, r, c).tag = "Value"
                  /\ CellAt(board, r, c).num \in 1..9

\* two cells set, one to a digit and one to 0, both changed since creation
C10_Witness ==
    /\ IsGrid(board)
    /\ pc = "ready"
    /\ \E r, c, r2, c2 \in Indexes :
           /\ last[r + 1][c + 1] \in 1..9
           /\ CellAt(board, r, c) /= CellAt(created, r, c)
           /\ last[r2 + 1][c2 + 1] = 0
           /\ CellAt(board, r2, c2) = Empty
           /\ CellAt(created, r2, c2) /= Empty

====
